---- MODULE Spec2Model ----
(***************************************************************************)
(* Model of the tessdata path finders of lios:                             *)
(*   src/lios/ocr/tesseract_path_finder.py  (FastTessdataFinder, "fast")    *)
(*   src/lios/ocr/tessract_path_finder.py   (TesseractPathFinder)           *)
(*                                                                         *)
(* Strings.  A path string is the sequence of its '/'-separated tokens     *)
(* after the leading '/': "/opt/tess" is <<"opt","tess">>, "//opt/tess" is *)
(* <<"","opt","tess">>, "/opt/tess/" is <<"opt","tess","">>.  Only          *)
(* absolute paths are modelled; <<>> stands for None / the empty string.   *)
(* A file name is the sequence of its tokens with every '.' a token of its *)
(* own: "eng.traineddata" is <<"eng",".","traineddata">>.                  *)
(* The modelled platform is Linux (os_type = "linux", case-sensitive file  *)
(* system, no symbolic links inside the modelled directories).             *)
(*                                                                         *)
(* Time.  Only differences of time.time() values are ever used, so an      *)
(* instant t is kept as its age time.time() - t: start_age for             *)
(* self.start_time, mtime_age and timestamp_age for the cache file.  An    *)
(* age stops growing at AgeCap, beyond every threshold it is compared to.  *)
(***************************************************************************)
EXTENDS Integers, Sequences, FiniteSets, TLC

VARIABLES
    fs,           \* the file system: directory -> node
    env,          \* os.environ restricted to the three variables read
    tess,         \* the installed tesseract binary and what it prints
    cache,        \* the cache file ~/.fast_tessdata_cache.json
    start_age,    \* time.time() - self.start_time
    pc,           \* position of the caller in find_tessdata_paths
    idx,          \* index of the next entry of `methods`
    found_paths,  \* self.found_paths
    use_cache,    \* argument use_cache of the running / last call
    result,       \* value returned by the last call
    invoked,      \* the probes invoked by the running / last call, in order
    last_ret,     \* what the last invoked probe returned (or that it raised)
    finalized,    \* _finalize_paths ran in the running / last call
    saved,        \* outcome of _save_cache in the last call
    cut,          \* the time budget cut the running / last call short
    prev,         \* the previous call, when it ran with use_cache false
    changes,      \* number of changes made by the environment so far
    calls,        \* number of calls started so far
    vq,           \* last direct call of the validators: argument and results
    fz,           \* last direct call of _finalize_paths: argument and result
    error,        \* exception that escaped the last operation, or "none"
    cq,           \* direct calls of the cache functions: what they returned
    xq,           \* last call of the exhaustive finder: what it returned
    pool,         \* the thread pool of _check_common_paths_smart
    overwritten,  \* the cache file the last call's save found in place
    io            \* the bytes of the cache file and the calls that race on it

vars == <<fs, env, tess, cache, start_age, pc, idx, found_paths, use_cache,
          result, invoked, last_ret, finalized, saved, cut, prev, changes,
          calls, vq, fz, error, cq, xq, pool, overwritten, io>>

(***************************************************************************)
(* Bounds of the model                                                     *)
(***************************************************************************)
MaxRaw == 3          \* longest list handed to a direct _finalize_paths call
MaxChanges == 1      \* changes made by the environment in one behaviour
MaxCalls == 2        \* calls of find_tessdata_paths in one behaviour
MaxOps == 3          \* direct calls of the cache functions in one behaviour
MaxTasks == 3        \* patterns submitted to the pool of the common paths
MaxWorkers == 2      \* max_workers, the worker threads of that pool
MaxOver == 3         \* seconds the clock runs on after the deadline

(***************************************************************************)
(* Program constants                                                       *)
(***************************************************************************)
DefaultTimeout == 8          \* timeout: float = 8.0
cache_max_age == 21600       \* 6 * 3600
Threshold == 3               \* len(self.found_paths) >= 3
SubprocessTimeout == 3       \* subprocess.run(..., timeout=3)
os_type == "linux"

(***************************************************************************)
(* Generic helpers                                                         *)
(***************************************************************************)
MaxOf(S) == CHOOSE x \in S : \A y \in S : y <= x

Range(s) == {s[i] : i \in 1..Len(s)}

EndsWith(s, suf) ==
    /\ Len(s) >= Len(suf)
    /\ SubSeq(s, Len(s) - Len(suf) + 1, Len(s)) = suf

\* str.lower() on one token
LowerTok(t) ==
    CASE t = "Tess" -> "tess"
      [] t = "ENG" -> "eng"
      [] t = "TRAINEDDATA" -> "traineddata"
      [] OTHER -> t

\* str.lower() on a path or on a file name
Lower(s) == [i \in 1..Len(s) |-> LowerTok(s[i])]

(***************************************************************************)
(* File names and directory nodes                                          *)
(***************************************************************************)
SUFFIX == <<".", "traineddata">>

ENG == <<"eng", ".", "traineddata">>
FRA == <<"fra", ".", "traineddata">>
DEU == <<"deu", ".", "traineddata">>
ENG_UPPER == <<"ENG", ".", "TRAINEDDATA">>
HIDDEN == <<".", "traineddata">>
BACKUP == <<"eng", ".", "traineddata", ".", "bak">>
README == <<"readme", ".", "txt">>
CONFIGS == <<"configs">>        \* a subdirectory configs that holds box.train

Absent == [kind |-> "absent", listable |-> FALSE, entries |-> {}]
FileNode == [kind |-> "file", listable |-> FALSE, entries |-> {}]
Dir(es) == [kind |-> "dir", listable |-> TRUE, entries |-> es]
NoPerm(es) == [kind |-> "dir", listable |-> FALSE, entries |-> es]

(***************************************************************************)
(* The directories that may exist, and raw path strings naming them        *)
(***************************************************************************)
D_OPT == <<"opt", "tess">>
D_OPT_UC == <<"opt", "Tess">>
D_OPT_SUB == <<"opt", "tess", "tessdata">>
D_SHARE == <<"usr", "share", "tessdata">>
D_PKG == <<"usr", "share", "tesseract-ocr", "5", "tessdata">>
D_HOME == <<"home", "u", ".local", "share", "tesseract", "tessdata">>
D_MARK == <<"srv", "tessdata_prefix">>
D_TOCR == <<"usr", "share", "tesseract-ocr", "tessdata">>
D_TOOLS == <<"opt", "tools", "tessdata">>
D_DEEP == <<"opt", "a", "b", "c", "d", "e", "tessdata">>
D_LINK == <<"opt", "link", "tessdata">>     \* /opt/link is a symbolic link

Dirs == {D_OPT, D_OPT_UC, D_OPT_SUB, D_SHARE, D_PKG, D_HOME, D_MARK, D_TOCR,
         D_TOOLS, D_DEEP, D_LINK}

R_OPT_2SLASH == <<"", "opt", "tess">>           \* "//opt/tess"
R_OPT_TRAIL == <<"opt", "tess", "">>            \* "/opt/tess/"
R_OPT_DOT == <<"opt", ".", "tess">>             \* "/opt/./tess"
R_SHARE_UP == <<"usr", "share", "..", "share", "tessdata">>
R_MISSING == <<"nonexistent">>

HomeDir == <<"home", "u">>                      \* expansion of "~"

(***************************************************************************)
(* os.path                                                                 *)
(***************************************************************************)
RECURSIVE NormComps(_, _)
\* the component loop of posixpath.normpath on an absolute path
NormComps(rest, acc) ==
    IF rest = <<>> THEN acc
    ELSE LET c == Head(rest) IN
         IF c = "" \/ c = "." THEN NormComps(Tail(rest), acc)
         ELSE IF c = ".."
              THEN NormComps(Tail(rest),
                             IF acc = <<>> THEN <<>>
                             ELSE SubSeq(acc, 1, Len(acc) - 1))
              ELSE NormComps(Tail(rest), Append(acc, c))

\* posixpath.normpath keeps exactly two leading slashes
InitialSlashes(p) ==
    IF Len(p) >= 2 /\ p[1] = "" /\ p[2] # "" THEN 2 ELSE 1

normpath(p) ==
    (IF InitialSlashes(p) = 2 THEN <<"">> ELSE <<>>) \o NormComps(p, <<>>)

\* os.path.abspath of an absolute path
abspath(p) == normpath(p)

\* os.path.join(a, b) for a relative b
join(a, b) ==
    IF a # <<>> /\ a[Len(a)] = "" THEN SubSeq(a, 1, Len(a) - 1) \o b
    ELSE a \o b

\* the directory the kernel reaches when it walks the path string
DirOf(p) == NormComps(p, <<>>)

Node(f, p) == IF DirOf(p) \in DOMAIN f THEN f[DirOf(p)] ELSE Absent

\* Path(p).is_dir()
is_dir(f, p) == Node(f, p).kind = "dir"

\* Path(p).exists()
exists(f, p) == Node(f, p).kind # "absent"

(***************************************************************************)
(* The validators                                                          *)
(***************************************************************************)
\* pathlib.PurePath.suffix of a file name
PathSuffix(name) ==
    LET dots == {i \in 1..Len(name) : name[i] = "."} IN
    IF dots = {} THEN <<>>
    ELSE LET i == MaxOf(dots) IN
         IF i > 1 /\ i < Len(name) THEN SubSeq(name, i, Len(name))
         ELSE <<>>

\* a validator that compares the suffix without regard to case
is_valid_tessdata_quick_nocase(f, p) ==
    /\ is_dir(f, p)
    /\ Node(f, p).listable
    /\ \E e \in Node(f, p).entries : PathSuffix(Lower(e)) = SUFFIX

\* FastTessdataFinder._is_valid_tessdata_quick
is_valid_tessdata_quick(f, p) ==
    /\ is_dir(f, p)
    /\ Node(f, p).listable
    /\ \E e \in Node(f, p).entries : PathSuffix(e) = SUFFIX

\* TesseractPathFinder._is_valid_tessdata_dir
is_valid_tessdata_dir(f, p) ==
    /\ Node(f, p).kind = "dir"
    /\ Node(f, p).listable
    /\ \E e \in Node(f, p).entries : EndsWith(e, SUFFIX)

(***************************************************************************)
(* Ranking                                                                 *)
(***************************************************************************)
\* len(list(Path(path).glob('*.traineddata')))
GlobCount(f, p) ==
    IF is_dir(f, p) /\ Node(f, p).listable
    THEN Cardinality({e \in Node(f, p).entries : EndsWith(e, SUFFIX)})
    ELSE 0

\* any(env in path_lower for env in ['tessdata_prefix', 'tesseract_data'])
HasEnvMarker(pl) == \E i \in 1..Len(pl) : pl[i] \in {"tessdata_prefix"}

\* '/usr/share' in path_lower
HasUsrShare(pl) ==
    \E i \in 1..(Len(pl) - 1) : pl[i] = "usr" /\ pl[i + 1] \in {"share"}

\* any(user in path_lower for user in ['home', 'users', '~'])
HasUserMarker(pl) == \E i \in 1..Len(pl) : pl[i] \in {"home"}

\* a score that adds the file count instead of subtracting it
score_added(f, p) ==
    (IF HasEnvMarker(Lower(p)) THEN -1000 ELSE 0)
    + (IF HasUsrShare(Lower(p)) THEN -500 ELSE 0)
    + (IF HasUserMarker(Lower(p)) THEN -300 ELSE 0)
    + GlobCount(f, p) * 10

\* priority_key(path)[0]
score(f, p) ==
    (IF HasEnvMarker(Lower(p)) THEN -1000 ELSE 0)
    + (IF HasUsrShare(Lower(p)) THEN -500 ELSE 0)
    + (IF HasUserMarker(Lower(p)) THEN -300 ELSE 0)
    - GlobCount(f, p) * 10

\* the lower-cased tokens in the order of their strings followed by '/'
TokOrder == <<".local", "", "5", "bin", "home", "nonexistent", "opt",
              "share", "srv", "tess", "tessdata", "tessdata_prefix",
              "tesseract-ocr", "tesseract", "u", "usr">>

TokRank(t) == CHOOSE i \in 1..Len(TokOrder) : TokOrder[i] = t

RECURSIVE StrLess(_, _)
\* a < b on the strings of two lower-cased paths
StrLess(a, b) ==
    IF b = <<>> THEN FALSE
    ELSE IF a = <<>> THEN TRUE
    ELSE IF a[1] = b[1] THEN StrLess(Tail(a), Tail(b))
    ELSE TokRank(a[1]) < TokRank(b[1])

\* priority_key(a) < priority_key(b) on the tuples (score, path_lower)
KeyLess(f, a, b) ==
    \/ score(f, a) < score(f, b)
    \/ score(f, a) = score(f, b) /\ StrLess(Lower(a), Lower(b))

RECURSIVE InsertByKey(_, _, _)
InsertByKey(f, x, s) ==
    IF s = <<>> THEN <<x>>
    ELSE IF KeyLess(f, x, s[1]) THEN <<x>> \o s
    ELSE <<s[1]>> \o InsertByKey(f, x, Tail(s))

\* a ranking step that leaves the list as it came
unsorted(f, s) == s

RECURSIVE sorted(_, _)
\* sorted(valid_paths, key=priority_key): a stable sort
sorted(f, s) ==
    IF s = <<>> THEN <<>>
    ELSE InsertByKey(f, s[Len(s)], sorted(f, SubSeq(s, 1, Len(s) - 1)))

RECURSIVE ValidNormalizedAll(_, _, _)
\* the loop of _finalize_paths without the membership test
ValidNormalizedAll(f, paths, acc) ==
    IF paths = <<>> THEN acc
    ELSE ValidNormalizedAll(f, Tail(paths),
            IF is_valid_tessdata_quick(f, Head(paths))
            THEN Append(acc, normpath(Head(paths)))
            ELSE acc)

RECURSIVE ValidNormalizedUnchecked(_, _, _)
\* the loop of _finalize_paths without the validation
ValidNormalizedUnchecked(f, paths, acc) ==
    IF paths = <<>> THEN acc
    ELSE ValidNormalizedUnchecked(f, Tail(paths),
            IF normpath(Head(paths)) \notin Range(acc)
            THEN Append(acc, normpath(Head(paths)))
            ELSE acc)

RECURSIVE ValidNormalized(_, _, _)
\* the loop of _finalize_paths
ValidNormalized(f, paths, acc) ==
    IF paths = <<>> THEN acc
    ELSE ValidNormalized(f, Tail(paths),
            IF /\ is_valid_tessdata_quick(f, Head(paths))
               /\ normpath(Head(paths)) \notin Range(acc)
            THEN Append(acc, normpath(Head(paths)))
            ELSE acc)

\* FastTessdataFinder._finalize_paths
finalize_paths(f, paths) == sorted(f, ValidNormalized(f, paths, <<>>))

(***************************************************************************)
(* The probes                                                              *)
(***************************************************************************)
RECURSIVE Flatten(_)
Flatten(ss) == IF ss = <<>> THEN <<>> ELSE Head(ss) \o Flatten(Tail(ss))

RECURSIVE SetToSeq(_)
SetToSeq(S) ==
    IF S = {} THEN <<>>
    ELSE LET x == CHOOSE y \in S : TRUE IN <<x>> \o SetToSeq(S \ {x})

\* env_vars of _check_environment_vars
EnvVars == <<"TESSDATA_PREFIX", "TESSERACT_DATA_PATH", "TESSERACT_PREFIX">>

\* the inner loop of _check_environment_vars for one variable
EnvCandidate(f, value) ==
    IF value = <<>> THEN <<>>
    ELSE IF is_valid_tessdata_quick(f, value) THEN <<abspath(value)>>
    ELSE IF is_valid_tessdata_quick(f, join(value, <<"tessdata">>))
         THEN <<abspath(join(value, <<"tessdata">>))>>
         ELSE <<>>

\* FastTessdataFinder._check_environment_vars
check_environment_vars(f, e) ==
    Flatten([i \in 1..Len(EnvVars) |-> EnvCandidate(f, e[EnvVars[i]])])

\* the tesseract binary found by shutil.which and its directory
TessBin == <<"usr", "bin", "tesseract">>
Parent(p) == SubSeq(p, 1, Len(p) - 1)

\* relatives of _get_tessdata_from_binary (non-Windows)
Relatives == << <<"..", "share", "tesseract-ocr", "tessdata">>,
                <<"..", "share", "tessdata">>,
                <<"..", "..", "share", "tesseract-ocr", "tessdata">>,
                <<"..", "tessdata">> >>

\* FastTessdataFinder._get_tessdata_from_binary
get_tessdata_from_binary(f, bin) ==
    Flatten([i \in 1..Len(Relatives) |->
        LET candidate == Parent(bin) \o Relatives[i] IN
        IF exists(f, candidate) /\ is_valid_tessdata_quick(f, candidate)
        THEN <<DirOf(candidate)>> ELSE <<>>])

\* what re.findall extracts from the output of `tesseract --print-parameters`
TessMatches(t) ==
    IF t = "prints" THEN << <<"usr", "share", "tessdata", "">> >> ELSE <<>>

RECURSIVE rstrip(_)
\* match.rstrip('/\\')
rstrip(p) ==
    IF p # <<>> /\ p[Len(p)] = "" THEN rstrip(SubSeq(p, 1, Len(p) - 1)) ELSE p

\* FastTessdataFinder._check_tesseract_command; expired: subprocess.run
\* raised TimeoutExpired
check_tesseract_command(f, t, expired) ==
    IF t = "absent" \/ expired THEN <<>>
    ELSE LET ms == TessMatches(t)
             direct == Flatten([i \in 1..Len(ms) |->
                 IF is_valid_tessdata_quick(f, rstrip(ms[i]))
                 THEN <<abspath(rstrip(ms[i]))>> ELSE <<>>])
         IN IF direct # <<>> THEN direct
            ELSE get_tessdata_from_binary(f, TessBin)

\* FastTessdataFinder._find_tesseract_binaries
find_tesseract_binaries(t) == IF t = "absent" THEN <<>> ELSE <<TessBin>>

\* FastTessdataFinder._get_smart_common_paths (Linux)
CommonPaths ==
    << <<"usr", "share", "tesseract-ocr", "tessdata">>,
       <<"usr", "share", "tessdata">>,
       <<"usr", "local", "share", "tesseract-ocr", "tessdata">>,
       <<"usr", "share", "tesseract-ocr", "*", "tessdata">>,
       <<"snap", "tesseract", "current", "usr", "share", "tesseract-ocr",
         "tessdata">>,
       <<"~", ".local", "share", "tesseract", "tessdata">>,
       <<"~", "miniconda*", "share", "tesseract-ocr", "tessdata">>,
       <<"~", "anaconda*", "share", "tesseract-ocr", "tessdata">> >>

\* os.path.expanduser
expanduser(p) == IF p # <<>> /\ p[1] = "~" THEN HomeDir \o Tail(p) ELSE p

Wildcards == {"*", "miniconda*", "anaconda*"}

\* '*' in expanded
HasWildcard(p) == \E i \in 1..Len(p) : p[i] \in Wildcards

\* fnmatch of one path component
TokMatch(pt, t) == pt = t \/ (pt = "*" /\ t \notin {".local"})

\* glob.glob(pattern)
glob(f, pat) ==
    SetToSeq({d \in Dirs :
        /\ exists(f, d)
        /\ Len(d) = Len(pat)
        /\ \A i \in 1..Len(pat) : TokMatch(pat[i], d[i])})

\* the valid matches of a glob pattern, made absolute
ValidMatches(f, pat) ==
    LET ms == glob(f, pat) IN
    Flatten([i \in 1..Len(ms) |->
        IF is_valid_tessdata_quick(f, ms[i]) THEN <<abspath(ms[i])>>
        ELSE <<>>])

\* FastTessdataFinder._check_path_with_glob
check_path_with_glob(f, path_pattern) ==
    LET expanded == expanduser(path_pattern) IN
    IF HasWildcard(expanded) THEN ValidMatches(f, expanded)
    ELSE IF is_valid_tessdata_quick(f, expanded) THEN <<abspath(expanded)>>
    ELSE <<>>

\* what _check_common_paths_smart returns when it has collected the futures
\* of the patterns in `done`
common_paths_collected(f, done) ==
    Flatten([i \in 1..Len(CommonPaths) |->
        IF i \in done THEN check_path_with_glob(f, CommonPaths[i])
        ELSE <<>>])

\* versioned_patterns of _check_package_locations
VersionedPatterns ==
    << <<"usr", "share", "tesseract-ocr", "*", "tessdata">>,
       <<"usr", "share", "tesseract", "*", "tessdata">>,
       <<"usr", "local", "share", "tesseract-ocr", "*", "tessdata">> >>

\* FastTessdataFinder._check_package_locations (Linux)
check_package_locations(f) ==
    Flatten([i \in 1..Len(VersionedPatterns) |->
        ValidMatches(f, VersionedPatterns[i])])

(***************************************************************************)
(* The exhaustive finder, TesseractPathFinder                              *)
(***************************************************************************)
\* a is a proper prefix of d
ProperPrefix(a, d) == Len(a) < Len(d) /\ SubSeq(d, 1, Len(a)) = a

\* every modelled directory between root and d can be listed
Listable(f, root, d) ==
    \A a \in Dirs :
        ProperPrefix(root, a) /\ ProperPrefix(a, d) =>
            f[a].kind = "dir" /\ f[a].listable

\* relative_paths of find_paths
XRelatives == << <<"..", "share", "tesseract-ocr", "tessdata">>,
                 <<"..", "share", "tesseract", "tessdata">>,
                 <<"..", "..", "share", "tesseract-ocr", "tessdata">>,
                 <<"..", "..", "share", "tesseract", "tessdata">>,
                 <<"..", "tessdata">>,
                 <<"tessdata">> >>

\* search_roots of _comprehensive_tessdata_search
SearchRoots == << <<"usr">>, <<"usr", "local">>, <<"opt">>, <<"var">> >>

\* max_depth of _search_tessdata_recursive
SearchDepth == 5

\* locations of _check_user_locations
UserLocations == << <<".local", "share", "tesseract", "tessdata">>,
                    <<".tesseract", "tessdata">>,
                    <<"tesseract", "tessdata">> >>

\* appends to `paths` the elements of `more` that are not in it yet
RECURSIVE AppendNew(_, _)
AppendNew(paths, more) ==
    IF more = <<>> THEN paths
    ELSE AppendNew(IF Head(more) \in Range(paths) THEN paths
                   ELSE Append(paths, Head(more)),
                   Tail(more))

\* the test every step of the exhaustive finder applies to a candidate
x_valid(f, p) == is_dir(f, p) /\ is_valid_tessdata_dir(f, p)

\* TesseractPathFinder._find_tesseract_binaries
x_find_tesseract_binaries(t) == IF t = "absent" THEN <<>> ELSE <<TessBin>>

\* step 2 of find_paths: the directories relative to a binary
x_binary_relative(f, bin) ==
    Flatten([i \in 1..Len(XRelatives) |->
        LET path == normpath(join(Parent(bin), XRelatives[i])) IN
        IF x_valid(f, path) THEN <<path>> ELSE <<>>])

\* the parts of line.split() that contain 'tessdata', over the lines of the
\* output of `tesseract --print-parameters`
TessParts(t) == TessMatches(t)

\* the exception subprocess.run raises in _get_tessdata_from_tesseract
x_tesseract_exc(t, expired) ==
    IF t # "absent" /\ expired THEN "TimeoutExpired" ELSE "none"

\* TesseractPathFinder._get_tessdata_from_tesseract, as a set; expired:
\* subprocess.run raised TimeoutExpired
x_get_tessdata_from_tesseract(f, t, expired) ==
    IF t = "absent" \/ x_tesseract_exc(t, expired) # "none" THEN {}
    ELSE {m \in Range(TessParts(t)) : x_valid(f, m)}

\* the entries that are symbolic links to directories
LinkNames == {"link"}

\* skip_dirs of _search_tessdata_recursive
SkipDirs == {"proc", "sys", "dev", "run", "tmp"}

\* the way from root down to d goes through an entry named in `names`
Through(root, d, names) ==
    \E i \in (Len(root) + 1)..Len(d) : d[i] \in names

\* what a walk from root reports when no listing ends it early
Walked(f, root) ==
    {d \in Dirs : /\ ProperPrefix(root, d)
                  /\ d[Len(d)] = "tessdata"
                  /\ Len(d) - Len(root) <= SearchDepth
                  /\ ~Through(root, d, LinkNames \cup SkipDirs)
                  /\ Listable(f, root, d)
                  /\ is_valid_tessdata_dir(f, d)}

\* a walk that a directory it cannot list ends
x_search_tessdata_recursive_failfast(f, root) ==
    IF \E a \in Dirs : /\ ProperPrefix(root, a)
                        /\ f[a].kind = "dir"
                        /\ ~f[a].listable
    THEN {}
    ELSE Walked(f, root)

\* TesseractPathFinder._search_tessdata_recursive, as a set
x_search_tessdata_recursive(f, root) ==
    {d \in Dirs : /\ ProperPrefix(root, d)
                  /\ d[Len(d)] = "tessdata"
                  /\ Len(d) - Len(root) <= SearchDepth
                  /\ ~Through(root, d, LinkNames \cup SkipDirs)
                  /\ Listable(f, root, d)
                  /\ is_valid_tessdata_dir(f, d)}

\* what the walks from all the roots find
x_walked(f) ==
    UNION {x_search_tessdata_recursive(f, SearchRoots[i]) :
           i \in 1..Len(SearchRoots)}

\* the matches of the recursive glob patterns under a root that are valid
x_glob_recursive(f, root) ==
    {d \in Dirs : /\ ProperPrefix(root, d)
                  /\ d[Len(d)] = "tessdata"
                  /\ Listable(f, root, d)
                  /\ x_valid(f, d)}

\* TesseractPathFinder._comprehensive_tessdata_search, as a set
x_comprehensive_tessdata_search(f) ==
    UNION {x_search_tessdata_recursive(f, SearchRoots[i])
               \cup x_glob_recursive(f, SearchRoots[i]) :
           i \in 1..Len(SearchRoots)}

\* TesseractPathFinder._check_user_locations
x_check_user_locations(f) ==
    Flatten([i \in 1..Len(UserLocations) |->
        IF x_valid(f, HomeDir \o UserLocations[i])
        THEN <<HomeDir \o UserLocations[i]>> ELSE <<>>])

\* TesseractPathFinder.find_paths; from_tess and searched: the lists that
\* list(set(...)) made of the results of steps 3 and 4
find_paths(f, e, t, from_tess, searched) ==
    LET env_path == e["TESSDATA_PREFIX"]
        p1 == IF env_path # <<>> /\ x_valid(f, env_path)
              THEN <<env_path>> ELSE <<>>
        bins == x_find_tesseract_binaries(t)
        p2 == AppendNew(p1, Flatten([i \in 1..Len(bins) |->
                                        x_binary_relative(f, bins[i])]))
        p3 == AppendNew(p2, from_tess)
        p4 == AppendNew(p3, searched)
    IN AppendNew(p4, x_check_user_locations(f))

\* a primary path that is the last path found
find_primary_path_last(paths) ==
    IF paths # <<>> THEN paths[Len(paths)] ELSE <<>>

\* TesseractPathFinder.find_primary_path on the result of find_paths
find_primary_path(paths) == IF paths # <<>> THEN paths[1] ELSE <<>>

\* the language codes in the order of sorted()
LangOrder == << <<>>, <<"ENG">>, <<"deu">>, <<"eng">>, <<"fra">> >>

\* filename[:-12]
Stem(name) == SubSeq(name, 1, Len(name) - Len(SUFFIX))

\* TesseractPathFinder.get_languages_from_path, as a set
get_languages_from_path(f, dirpath) ==
    IF is_dir(f, dirpath) /\ Node(f, dirpath).listable
    THEN {Stem(e) : e \in {n \in Node(f, dirpath).entries :
                                EndsWith(Lower(n), SUFFIX)}}
    ELSE {}

\* os.path.isfile(dirpath + "/configs/box.train")
has_box_train(f, dirpath) ==
    is_dir(f, dirpath) /\ CONFIGS \in Node(f, dirpath).entries

\* sorted() of a duplicate-free list of codes
sorted_langs(S) == SelectSeq(LangOrder, LAMBDA c : c \in S)

\* a get_all_languages that reads every found directory
get_all_languages_every(f, paths) ==
    sorted_langs(UNION {get_languages_from_path(f, paths[i]) :
                           i \in 1..Len(paths)})

\* TesseractPathFinder.get_all_languages on the result of find_paths
get_all_languages(f, paths) ==
    LET boxed == UNION {get_languages_from_path(f, paths[i]) :
                           i \in {k \in 1..Len(paths) :
                                      has_box_train(f, paths[k])}}
    IN IF boxed # {} THEN sorted_langs(boxed)
       ELSE sorted_langs(UNION {get_languages_from_path(f, paths[i]) :
                                   i \in 1..Len(paths)})

(***************************************************************************)
(* The cache file                                                          *)
(***************************************************************************)
\* a cache file is absent, or holds a record ("valid"), or cannot be opened
\* ("unreadable"), or holds no JSON ("malformed"), or holds JSON that is
\* not an object ("wrong_type")
NoCache == [state |-> "absent", paths |-> <<>>, timestamp_age |-> 0,
            mtime_age |-> 0]

\* the exception classes the code can meet; OSErrors are the subclasses of
\* OSError among them, and all of them are subclasses of Exception
OSErrors == {"OSError", "FileNotFoundError", "PermissionError", "TimeoutError"}
Exceptions ==
    OSErrors \cup {"JSONDecodeError", "AttributeError", "TimeoutExpired"}

\* a handler `except (OSError, PermissionError):`, what it lets through
except_OSError(exc) == IF exc \in OSErrors THEN "none" ELSE exc

\* a handler that lets a timeout through
except_NoTimeout(exc) ==
    IF exc \in Exceptions \ {"TimeoutError"} THEN "none" ELSE exc

\* the handlers `except Exception:` and `except:`, what they let through
except_Exception(exc) == IF exc \in Exceptions THEN "none" ELSE exc

\* the exception raised inside the try block of _load_cache
load_cache_exc(c, f) ==
    IF c.state = "absent" THEN "none"
    ELSE IF c.mtime_age > cache_max_age THEN "none"
    ELSE CASE c.state = "unreadable" -> "PermissionError"
           [] c.state = "malformed" -> "JSONDecodeError"
           [] c.state = "wrong_type" -> "AttributeError"
           [] OTHER -> "none"

\* the exception that leaves _load_cache
load_cache_error(c, f) == except_Exception(load_cache_exc(c, f))

\* a cache load that trusts the listed paths
load_cache_unvalidated(c, f) ==
    IF c.state = "absent" THEN <<>>
    ELSE IF c.mtime_age > cache_max_age THEN <<>>
    ELSE IF c.state # "valid" THEN <<>>
    ELSE c.paths

\* a cache load that never looks at the age of the file
load_cache_noexpiry(c, f) ==
    IF c.state # "valid" THEN <<>>
    ELSE SelectSeq(c.paths, LAMBDA p : is_valid_tessdata_quick(f, p))

\* FastTessdataFinder._load_cache
load_cache(c, f) ==
    IF c.state = "absent" THEN <<>>
    ELSE IF c.mtime_age > cache_max_age THEN <<>>
    ELSE IF load_cache_exc(c, f) # "none" THEN <<>>
    ELSE SelectSeq(c.paths, LAMBDA p : is_valid_tessdata_quick(f, p))

\* a save that adds the new paths to the record it finds
save_cache_merge(c, paths, ok) ==
    IF ok THEN [state |-> "valid", paths |-> c.paths \o paths,
                timestamp_age |-> 0, mtime_age |-> 0]
    ELSE c

\* the exception raised inside the try block of _save_cache
save_cache_exc(ok) == IF ok THEN "none" ELSE "PermissionError"

\* a _save_cache without its handler
save_cache_uncaught(ok) == save_cache_exc(ok)

\* the exception that leaves _save_cache
save_cache_error(ok) == except_Exception(save_cache_exc(ok))

\* a save that keeps only the first path
save_cache_primary(c, paths, ok) ==
    IF ok THEN [state |-> "valid", paths |-> SubSeq(paths, 1, 1),
                timestamp_age |-> 0, mtime_age |-> 0]
    ELSE c

\* FastTessdataFinder._save_cache; ok: the file could be opened and written
save_cache(c, paths, ok) ==
    IF ok THEN [state |-> "valid", paths |-> paths, timestamp_age |-> 0,
                mtime_age |-> 0]
    ELSE c

\* an age beyond which nothing distinguishes two instants
AgeCap == cache_max_age + 1

\* the age of an instant after d more seconds
Older(a, d) == IF a + d > AgeCap THEN AgeCap ELSE a + d

\* the cache file after d more seconds
Aged(c, d) ==
    IF c.state = "absent" THEN c
    ELSE [c EXCEPT !.timestamp_age = Older(c.timestamp_age, d),
                   !.mtime_age = Older(c.mtime_age, d)]

\* FastTessdataFinder._elapsed
elapsed(sa) == sa

\* FastTessdataFinder._is_timeout
is_timeout(sa) == elapsed(sa) > DefaultTimeout

\* FastTessdataFinder.get_primary_path on the result of the call
get_primary_path(r) == IF r # <<>> THEN r[1] ELSE <<>>

(***************************************************************************)
(* States of the environment the behaviours start from                     *)
(***************************************************************************)
L1 == Dir({ENG})
L3 == Dir({ENG, FRA, DEU})

EmptyFs == [d \in Dirs |-> Absent]

F_ENV_SHARE == [EmptyFs EXCEPT ![D_OPT] = L3, ![D_SHARE] = L1, ![D_PKG] = L1]
F_MANY == [EmptyFs EXCEPT ![D_OPT] = L1, ![D_OPT_UC] = L1, ![D_SHARE] = L1,
                          ![D_HOME] = L3]
F_SUB == [EmptyFs EXCEPT ![D_OPT] = Dir({README}), ![D_OPT_SUB] = L1,
                         ![D_MARK] = L3]

NoEnv == [v \in Range(EnvVars) |-> <<>>]
E_ONE == [NoEnv EXCEPT !["TESSDATA_PREFIX"] = D_OPT]
E_THREE == [NoEnv EXCEPT !["TESSDATA_PREFIX"] = D_OPT,
                         !["TESSERACT_DATA_PATH"] = D_OPT_UC,
                         !["TESSERACT_PREFIX"] = R_OPT_2SLASH]
E_TWO == [NoEnv EXCEPT !["TESSDATA_PREFIX"] = D_OPT,
                       !["TESSERACT_DATA_PATH"] = D_OPT_UC]
E_SUB == [NoEnv EXCEPT !["TESSDATA_PREFIX"] = R_OPT_TRAIL,
                       !["TESSERACT_PREFIX"] = D_MARK]

\* the installations the behaviours start from
Scenarios ==
    { [fs |-> EmptyFs, env |-> NoEnv, tess |-> "absent"],
      [fs |-> F_ENV_SHARE, env |-> E_ONE, tess |-> "prints"],
      [fs |-> F_MANY, env |-> E_THREE, tess |-> "plain"],
      [fs |-> F_MANY, env |-> E_TWO, tess |-> "absent"],
      [fs |-> F_MANY, env |-> NoEnv, tess |-> "plain"],
      [fs |-> F_SUB, env |-> E_SUB, tess |-> "absent"] }

\* a directory below another one needs its parent
FsOK(f) == f[D_OPT_SUB].kind # "absent" => f[D_OPT].kind = "dir"

\* the directories another program may remove
ChangeDirs == {D_OPT, D_SHARE}

\* seconds a probe that waits for something may take
Durations == {0, 5}

\* seconds that may pass between two calls
IdleSteps == {cache_max_age, cache_max_age + 1}

NoRet == [name |-> "none", paths |-> <<>>, raised |-> FALSE,
          expired |-> FALSE]
NoVq == [op |-> "none", path |-> <<>>, quick |-> FALSE, dir |-> FALSE]
NoFz == [op |-> "none", paths |-> <<>>, out |-> <<>>]
NoXq == [op |-> "none", paths |-> <<>>, primary |-> <<>>, langs |-> <<>>,
         searched |-> {}, walked |-> {}]
NoPool == [phase |-> "none"]
NoIo == [on |-> FALSE]
NoPrev == [valid |-> FALSE, result |-> <<>>, cut |-> FALSE,
           changed |-> FALSE, cur_changed |-> FALSE]

\* FastTessdataFinder.__init__, before the first call
InitCall ==
    /\ start_age = 0
    /\ pc = "idle"
    /\ idx = 1
    /\ found_paths = {}
    /\ use_cache = FALSE
    /\ result = <<>>
    /\ invoked = <<>>
    /\ last_ret = NoRet
    /\ finalized = FALSE
    /\ saved = "none"
    /\ cut = FALSE
    /\ prev = NoPrev
    /\ changes = 0
    /\ calls = 0
    /\ vq = NoVq
    /\ fz = NoFz
    /\ error = "none"
    /\ cq = <<>>
    /\ xq = NoXq
    /\ pool = NoPool
    /\ overwritten = NoCache

\* a finder on a machine that has no cache file yet
InitFinder == cache = NoCache /\ InitCall /\ io = NoIo

Init ==
    /\ \E sc \in Scenarios : fs = sc.fs /\ env = sc.env /\ tess = sc.tess
    /\ InitFinder

(***************************************************************************)
(* find_tessdata_paths                                                     *)
(***************************************************************************)
\* methods of find_tessdata_paths
Methods == <<"env_vars", "tesseract_cmd", "common_paths", "binary_relative",
             "package_locations">>

\* a loop head that stops one candidate too late
StopLate == is_timeout(start_age) \/ Cardinality(found_paths) > Threshold

\* a loop head that counts the candidates as finalization will leave them
StopFinal ==
    \/ is_timeout(start_age)
    \/ Cardinality(Range(ValidNormalized(fs, SetToSeq(found_paths), <<>>)))
           >= Threshold

\* the condition of the `break` at the head of the loop
Stop == is_timeout(start_age) \/ Cardinality(found_paths) >= Threshold

\* lines 56-57 and the bookkeeping of a call that starts
StartCall(uc) ==
    /\ pc \in {"idle", "done"}
    /\ calls < MaxCalls
    /\ calls' = calls + 1
    /\ start_age' = 0
    /\ found_paths' = {}
    /\ use_cache' = uc
    /\ invoked' = <<>>
    /\ last_ret' = NoRet
    /\ finalized' = FALSE
    /\ saved' = "none"
    /\ cut' = FALSE
    /\ idx' = 1
    /\ prev' = IF pc = "done" /\ ~use_cache /\ ~uc
               THEN [valid |-> TRUE, result |-> result, cut |-> cut,
                     changed |-> prev.cur_changed, cur_changed |-> FALSE]
               ELSE NoPrev
    /\ error' = IF uc THEN load_cache_error(cache, fs) ELSE "none"
    /\ xq' = NoXq
    /\ overwritten' = NoCache
    /\ UNCHANGED <<fs, env, tess, cache, changes, vq, fz, cq, pool, io>>

\* the result a cache hit hands back
hit_result(cached, f) == cached

\* find_tessdata_paths up to `return cached`
BeginHit ==
    /\ StartCall(TRUE)
    /\ load_cache(cache, fs) # <<>>
    /\ result' = hit_result(load_cache(cache, fs), fs)
    /\ pc' = "done"

\* find_tessdata_paths up to the head of the loop
BeginMiss ==
    \E uc \in BOOLEAN :
        /\ StartCall(uc)
        /\ uc => load_cache(cache, fs) = <<>>
        /\ result' = <<>>
        /\ pc' = "loop"

\* the loop is about to invoke the probe `name`
AtProbe(name) ==
    /\ pc = "loop"
    /\ idx <= Len(Methods)
    /\ Methods[idx] = name
    /\ ~Stop

\* lines 84-93: one iteration of the loop around the probe `name`, which
\* took d seconds and returned ret or raised; expired: a timeout of its own
\* ended the probe
Iteration(name, ret, raised, d, timing, expired) ==
    /\ AtProbe(name)
    /\ found_paths' = IF raised THEN found_paths
                      ELSE found_paths \cup Range(ret)
    /\ last_ret' = [name |-> name, paths |-> IF raised THEN <<>> ELSE ret,
                    raised |-> raised, expired |-> expired]
    /\ error' = IF raised THEN except_Exception("TimeoutError") ELSE "none"
    /\ invoked' = Append(invoked, name)
    /\ idx' = idx + 1
    /\ start_age' = Older(start_age, d)
    /\ cache' = Aged(cache, d)
    /\ cut' = (cut \/ timing)
    /\ UNCHANGED <<fs, env, tess, pc, use_cache, result, finalized, saved,
                   prev, changes, calls, vq, fz, cq, xq, pool,
                   overwritten, io>>

ProbeEnv ==
    /\ AtProbe("env_vars")
    /\ Iteration("env_vars", check_environment_vars(fs, env), FALSE, 0, FALSE,
                 FALSE)

ProbeTesseractCmd ==
    /\ AtProbe("tesseract_cmd")
    /\ \E d \in Durations, expired \in BOOLEAN :
        /\ expired => (d >= SubprocessTimeout /\ tess # "absent")
        /\ tess = "absent" => d = 0
        /\ Iteration("tesseract_cmd",
                     check_tesseract_command(fs, tess, expired), FALSE, d,
                     expired, expired)

\* the patterns of the common paths under which something valid lies
Productive ==
    {i \in 1..Len(CommonPaths) : check_path_with_glob(fs, CommonPaths[i]) # <<>>}

\* _check_common_paths_smart: every future collected
ProbeCommonAll ==
    /\ AtProbe("common_paths")
    /\ \E d \in Durations :
        Iteration("common_paths",
                  common_paths_collected(fs, 1..Len(CommonPaths)), FALSE, d,
                  FALSE, FALSE)

\* _check_common_paths_smart leaves the collecting loop at `break`, having
\* collected the futures in `done` (any of them may complete first)
ProbeCommonBreak ==
    /\ AtProbe("common_paths")
    /\ \E d \in Durations, done \in SUBSET Productive :
        /\ is_timeout(Older(start_age, d))
        /\ done # Productive
        /\ Iteration("common_paths", common_paths_collected(fs, done), FALSE,
                     d, TRUE, FALSE)

\* timeout_remaining of _check_common_paths_smart
timeout_remaining ==
    IF DefaultTimeout - elapsed(start_age) > 1
    THEN DefaultTimeout - elapsed(start_age) ELSE 1

\* as_completed raises TimeoutError, which leaves the probe
ProbeCommonRaise ==
    /\ AtProbe("common_paths")
    /\ \E d \in Durations :
        /\ d >= timeout_remaining
        /\ Iteration("common_paths", <<>>, TRUE, d, TRUE, TRUE)

\* _check_binary_relative_paths; skipped: the loop saw the timeout first
ProbeBinaryRelative ==
    /\ AtProbe("binary_relative")
    /\ \E d \in Durations, skipped \in BOOLEAN :
        /\ skipped => (is_timeout(Older(start_age, d)) /\ tess # "absent")
        /\ tess = "absent" => d = 0
        /\ Iteration("binary_relative",
                     IF skipped \/ find_tesseract_binaries(tess) = <<>>
                     THEN <<>>
                     ELSE get_tessdata_from_binary(fs, TessBin),
                     FALSE, d, skipped, FALSE)

ProbePackage ==
    /\ AtProbe("package_locations")
    /\ Iteration("package_locations", check_package_locations(fs), FALSE, 0,
                 FALSE, FALSE)

RECURSIVE Perms(_)
\* the orders in which list(self.found_paths) may enumerate the set
Perms(S) ==
    IF S = {} THEN {<<>>}
    ELSE UNION {{<<x>> \o s : s \in Perms(S \ {x})} : x \in S}

\* a call that saves whatever it found
should_save_always(uc, final_paths) == TRUE

\* line 98: `if use_cache and final_paths`
should_save(uc, final_paths) == uc /\ final_paths # <<>>

\* lines 95-106: leave the loop, finalize, save, return
Finalize ==
    /\ pc = "loop"
    /\ idx > Len(Methods) \/ Stop
    /\ \E order \in Perms(found_paths), ok \in BOOLEAN :
        /\ result' = finalize_paths(fs, order)
        /\ IF should_save(use_cache, result')
           THEN /\ cache' = save_cache(cache, result', ok)
                /\ saved' = IF ok THEN "ok" ELSE "failed"
                /\ error' = save_cache_error(ok)
                /\ overwritten' = cache
           ELSE /\ ok
                /\ cache' = cache
                /\ saved' = "none"
                /\ error' = "none"
                /\ overwritten' = NoCache
    /\ finalized' = TRUE
    /\ cut' = (cut \/ (idx <= Len(Methods) /\ is_timeout(start_age)
                       /\ Cardinality(found_paths) < Threshold))
    /\ pc' = "done"
    /\ idx' = 1
    /\ last_ret' = NoRet
    /\ UNCHANGED <<fs, env, tess, start_age, found_paths, use_cache, invoked,
                   prev, changes, calls, vq, fz, cq, xq, pool, io>>

(***************************************************************************)
(* The environment                                                         *)
(***************************************************************************)
\* time passes between two calls
Tick ==
    /\ pc = "done"
    /\ calls < MaxCalls
    /\ \E d \in IdleSteps :
        /\ start_age' = Older(start_age, d)
        /\ cache' = Aged(cache, d)
    /\ UNCHANGED <<fs, env, tess, pc, idx, found_paths, use_cache, result,
                   invoked, last_ret, finalized, saved, cut, prev, changes,
                   calls,
                   vq, fz, error, cq, xq, pool,
                   overwritten, io>>

\* another program removes a data directory
RemoveDir ==
    /\ changes < MaxChanges
    /\ pc # "idle"
    /\ \E d \in ChangeDirs :
        /\ fs[d].kind # "absent"
        /\ fs' = [fs EXCEPT ![d] = Absent]
        /\ FsOK(fs')
    /\ changes' = changes + 1
    /\ prev' = [prev EXCEPT !.changed = TRUE, !.cur_changed = TRUE]
    /\ UNCHANGED <<env, tess, cache, start_age, pc, idx, found_paths,
                   use_cache, result, invoked, last_ret, finalized, saved,
                   cut, calls, vq, fz, error, cq, xq, pool,
                   overwritten, io>>

\* another program rewrites the cache file's modification time (touch,
\* restore from a backup, file synchronisation)
TouchCache ==
    /\ changes < MaxChanges
    /\ cache.state # "absent"
    /\ cache.mtime_age # 0
    /\ cache' = [cache EXCEPT !.mtime_age = 0]
    /\ changes' = changes + 1
    /\ UNCHANGED <<fs, env, tess, start_age, pc, idx, found_paths, use_cache,
                   result, invoked, last_ret, finalized, saved, cut, prev,
                   calls, vq, fz, error, cq, xq, pool,
                   overwritten, io>>

\* TesseractPathFinder.find_primary_path()
CallFindPrimaryPath ==
    /\ pc = "idle"
    /\ xq = NoXq
    /\ \E expired \in BOOLEAN :
        /\ error' = except_Exception(x_tesseract_exc(tess, expired))
        /\ \E from_tess \in Perms(x_get_tessdata_from_tesseract(fs, tess,
                                                                expired)),
              searched \in Perms(x_comprehensive_tessdata_search(fs)) :
            LET paths == find_paths(fs, env, tess, from_tess, searched) IN
            xq' = [op |-> "primary", paths |-> paths,
                   primary |-> find_primary_path(paths), langs |-> <<>>,
                   searched |-> Range(searched), walked |-> x_walked(fs)]
    /\ UNCHANGED <<fs, env, tess, cache, start_age, pc, idx, found_paths,
                   use_cache, result, invoked, last_ret, finalized, saved,
                   cut, prev, changes, calls, vq, fz, cq, pool,
                   overwritten, io>>

Next ==
    \/ BeginHit
    \/ BeginMiss
    \/ ProbeEnv
    \/ ProbeTesseractCmd
    \/ ProbeCommonAll
    \/ ProbeCommonBreak
    \/ ProbeCommonRaise
    \/ ProbeBinaryRelative
    \/ ProbePackage
    \/ Finalize
    \/ Tick
    \/ RemoveDir
    \/ TouchCache
    \/ CallFindPrimaryPath

Spec == Init /\ [][Next]_vars

(***************************************************************************)
(* Direct calls of the validators and of _finalize_paths                   *)
(***************************************************************************)
ValidatorNodes ==
    {Absent, FileNode, NoPerm({ENG}), Dir({}), Dir({README}), L1, L3,
     Dir({ENG_UPPER}), Dir({HIDDEN}), Dir({BACKUP, README})}

PureFsSet ==
    {[EmptyFs EXCEPT ![D_OPT] = a, ![D_OPT_UC] = b, ![D_SHARE] = c,
                     ![D_MARK] = L1, ![D_HOME] = L3] :
        a \in ValidatorNodes, b \in {Absent, L1, L3}, c \in {Absent, L1}}

ValidatorArgs ==
    {D_OPT, R_OPT_2SLASH, R_OPT_TRAIL, R_OPT_DOT, D_OPT_UC, D_SHARE,
     R_SHARE_UP, D_MARK, D_HOME, R_MISSING}

RawPaths ==
    {D_OPT, R_OPT_2SLASH, R_OPT_TRAIL, D_OPT_UC, D_SHARE, R_SHARE_UP, D_MARK,
     D_HOME}

RawLists == UNION {[1..n -> RawPaths] : n \in 0..MaxRaw}

InitPure ==
    /\ fs \in PureFsSet
    /\ env = NoEnv
    /\ tess = "absent"
    /\ InitFinder

CallValidator ==
    /\ vq = NoVq /\ fz = NoFz
    /\ \E p \in ValidatorArgs :
        vq' = [op |-> "validate", path |-> p,
               quick |-> is_valid_tessdata_quick(fs, p),
               dir |-> is_valid_tessdata_dir(fs, p)]
    /\ fz' = NoFz
    /\ UNCHANGED <<fs, env, tess, cache, start_age, pc, idx, found_paths,
                   use_cache, result, invoked, last_ret, finalized, saved,
                   cut, prev, changes, calls, error, cq, xq,
                   pool, overwritten, io>>

CallFinalize ==
    /\ vq = NoVq /\ fz = NoFz
    /\ \E paths \in RawLists :
        fz' = [op |-> "finalize", paths |-> paths,
               out |-> finalize_paths(fs, paths)]
    /\ vq' = NoVq
    /\ UNCHANGED <<fs, env, tess, cache, start_age, pc, idx, found_paths,
                   use_cache, result, invoked, last_ret, finalized, saved,
                   cut, prev, changes, calls, error, cq, xq,
                   pool, overwritten, io>>

NextPure == CallValidator \/ CallFinalize

SpecPure == InitPure /\ [][NextPure]_vars

(***************************************************************************)
(* Direct calls of _load_cache, _save_cache and clear_cache, and the cache *)
(* step of find_tessdata_paths, on arbitrary cache files                    *)
(***************************************************************************)
\* clear_cache; ok: unlink succeeded
clear_cache_keep(c, ok) == [cache |-> c, ret |-> c.state # "absent"]

clear_cache(c, ok) ==
    IF c.state # "absent" /\ ok THEN [cache |-> NoCache, ret |-> TRUE]
    ELSE [cache |-> c, ret |-> FALSE]

\* the exception raised inside the try block of clear_cache
clear_cache_exc(c, ok) ==
    IF c.state # "absent" /\ ~ok THEN "PermissionError" ELSE "none"

\* the lists of paths a record may hold
CachedLists ==
    UNION {[1..n -> {D_OPT, D_SHARE, D_HOME, R_MISSING}] : n \in 0..2}

\* the cache files the behaviours start from
CacheFiles ==
    {NoCache}
    \cup {[state |-> "valid", paths |-> ps, timestamp_age |-> a, mtime_age |-> a] :
            ps \in CachedLists, a \in {0, cache_max_age, cache_max_age + 1}}
    \cup {[state |-> st, paths |-> <<>>, timestamp_age |-> a, mtime_age |-> a] :
            st \in {"unreadable", "malformed", "wrong_type"},
            a \in {0, cache_max_age + 1}}

CacheFsSet == {F_MANY, [F_MANY EXCEPT ![D_OPT] = Absent]}

InitCache ==
    /\ fs \in CacheFsSet
    /\ env = NoEnv
    /\ tess = "absent"
    /\ cache \in CacheFiles
    /\ InitCall
    /\ io = NoIo

CallLoad ==
    /\ pc = "idle"
    /\ Len(cq) < MaxOps
    /\ cq' = Append(cq, [op |-> "load", paths |-> load_cache(cache, fs),
                         ret |-> load_cache(cache, fs) # <<>>])
    /\ error' = load_cache_error(cache, fs)
    /\ UNCHANGED <<fs, env, tess, cache, start_age, pc, idx, found_paths,
                   use_cache, result, invoked, last_ret, finalized, saved,
                   cut, prev, changes, calls, vq, fz, xq, pool,
                   overwritten, io>>

CallSave ==
    /\ pc = "idle"
    /\ Len(cq) < MaxOps
    /\ \E paths \in {<<D_HOME, D_SHARE>>}, ok \in BOOLEAN :
        /\ \A i \in 1..Len(paths) : is_valid_tessdata_quick(fs, paths[i])
        /\ cache' = save_cache(cache, paths, ok)
        /\ cq' = Append(cq, [op |-> "save", paths |-> paths, ret |-> ok])
        /\ error' = save_cache_error(ok)
    /\ UNCHANGED <<fs, env, tess, start_age, pc, idx, found_paths,
                   use_cache, result, invoked, last_ret, finalized, saved,
                   cut, prev, changes, calls, vq, fz, xq, pool,
                   overwritten, io>>

CallClear ==
    /\ pc = "idle"
    /\ Len(cq) < MaxOps
    /\ \E ok \in BOOLEAN :
        /\ cache' = clear_cache(cache, ok).cache
        /\ cq' = Append(cq, [op |-> "clear", paths |-> <<>>,
                             ret |-> clear_cache(cache, ok).ret])
        /\ error' = except_Exception(clear_cache_exc(cache, ok))
    /\ UNCHANGED <<fs, env, tess, start_age, pc, idx, found_paths,
                   use_cache, result, invoked, last_ret, finalized, saved,
                   cut, prev, changes, calls, vq, fz, xq, pool,
                   overwritten, io>>

NextCache == CallLoad \/ CallSave \/ CallClear \/ BeginHit \/ BeginMiss

SpecCache == InitCache /\ [][NextCache]_vars

(***************************************************************************)
(* The exhaustive finder on its own: find_primary_path, get_all_languages   *)
(***************************************************************************)
\* the contents a data directory may have
XNodes == {Absent, Dir({ENG}), Dir({ENG, FRA}), Dir({ENG, CONFIGS}),
           Dir({FRA, DEU, CONFIGS}), Dir({ENG_UPPER, DEU}),
           Dir({HIDDEN, CONFIGS}), Dir({CONFIGS}), NoPerm({ENG})}

\* the contents of the user's data directory
XHomeNodes == {Absent, Dir({FRA}), Dir({DEU, CONFIGS}), Dir({ENG_UPPER})}

\* the installations the exhaustive finder is run on
XFsSet ==
    {[EmptyFs EXCEPT ![D_SHARE] = a, ![D_HOME] = b, ![D_TOCR] = c,
                     ![D_OPT] = d] :
        a \in XNodes, b \in XHomeNodes,
        c \in {Absent, Dir({FRA, CONFIGS})}, d \in {Absent, Dir({DEU})}}
    \cup
    {[EmptyFs EXCEPT ![D_OPT] = o, ![D_OPT_SUB] = s, ![D_TOOLS] = t,
                     ![D_DEEP] = e, ![D_LINK] = l] :
        o \in {Dir({README}), NoPerm({})},
        s \in {Absent, L1}, t \in {Absent, L1}, e \in {Absent, L1},
        l \in {Absent, Dir({FRA})}}

InitExh ==
    /\ fs \in XFsSet
    /\ env \in {NoEnv, E_ONE}
    /\ tess \in {"absent", "prints"}
    /\ InitFinder

\* TesseractPathFinder.get_all_languages()
CallGetAllLanguages ==
    /\ pc = "idle"
    /\ xq = NoXq
    /\ \E expired \in BOOLEAN :
        /\ error' = except_Exception(x_tesseract_exc(tess, expired))
        /\ \E from_tess \in Perms(x_get_tessdata_from_tesseract(fs, tess,
                                                                expired)),
              searched \in Perms(x_comprehensive_tessdata_search(fs)) :
            LET paths == find_paths(fs, env, tess, from_tess, searched) IN
            xq' = [op |-> "languages", paths |-> paths, primary |-> <<>>,
                   langs |-> get_all_languages(fs, paths),
                   searched |-> Range(searched), walked |-> x_walked(fs)]
    /\ UNCHANGED <<fs, env, tess, cache, start_age, pc, idx, found_paths,
                   use_cache, result, invoked, last_ret, finalized, saved,
                   cut, prev, changes, calls, vq, fz, cq, pool,
                   overwritten, io>>

NextExh == CallFindPrimaryPath \/ CallGetAllLanguages

SpecExh == InitExh /\ [][NextExh]_vars

(***************************************************************************)
(* The worker pool of _check_common_paths_smart, thread by thread          *)
(***************************************************************************)
\* the patterns submitted to the pool
PoolTasks == 1..MaxTasks

\* the clock stops this many seconds after the deadline
PoolCap == DefaultTimeout + MaxOver

NoTime == -1

\* the tasks a worker thread is executing
Running(p) == {t \in PoolTasks : p.task[t] \in {"running", "writing"}}

\* the work items still in the queue of the executor
Queued(p) == {t \in PoolTasks : p.task[t] = "queued"}

\* the head of the queue
NextQueued(p) == CHOOSE t \in Queued(p) : \A u \in Queued(p) : t <= u

\* a worker thread is free to take the head of the queue
CanStart(p) == Queued(p) # {} /\ Cardinality(Running(p)) < MaxWorkers

\* the futures that are finished and that as_completed has not yielded yet
Finished(p) == {t \in PoolTasks \ p.collected : p.task[t] = "done"}

\* a worker that appends to the list `paths` of the collecting thread
worker_target_shared(t) == <<"paths", 0>>

\* the list a worker appends to: `found`, local to _check_path_with_glob
worker_target(t) == <<"found", t>>

\* the objects being written, each with the thread that writes it
Writes(p) ==
    {[thread |-> t, obj |-> worker_target(t)] :
        t \in {u \in PoolTasks : p.task[u] = "writing"}}
    \cup (IF p.main = "extending"
          THEN {[thread |-> 0, obj |-> <<"paths", 0>>]} ELSE {})
    \cup (IF p.phase = "inserting"
          THEN {[thread |-> 0, obj |-> <<"found_paths", 0>>]} ELSE {})

\* the installations the pool is run on
PoolFsSet == {EmptyFs, F_MANY,
              [EmptyFs EXCEPT ![D_TOCR] = L1, ![D_SHARE] = L3]}

\* the seconds already spent when the loop reaches the probe
EntryAges == {0, 6, 8}

\* find_tessdata_paths has reached the common_paths probe
InitPool ==
    /\ fs \in PoolFsSet
    /\ env = NoEnv
    /\ tess = "absent"
    /\ cache = NoCache
    /\ start_age \in EntryAges
    /\ pc = "loop"
    /\ idx = 3
    /\ found_paths = {}
    /\ use_cache = FALSE
    /\ result = <<>>
    /\ invoked = <<"env_vars", "tesseract_cmd">>
    /\ last_ret = [name |-> "tesseract_cmd", paths |-> <<>>,
                   raised |-> FALSE, expired |-> FALSE]
    /\ finalized = FALSE
    /\ saved = "none"
    /\ cut = FALSE
    /\ prev = NoPrev
    /\ changes = 0
    /\ calls = 1
    /\ vq = NoVq
    /\ fz = NoFz
    /\ error = "none"
    /\ cq = <<>>
    /\ xq = NoXq
    /\ pool = NoPool
    /\ overwritten = NoCache
    /\ io = NoIo

\* what no step of the probe changes
PoolFrame ==
    UNCHANGED <<fs, env, tess, cache, pc, use_cache, result, finalized,
                saved, cut, prev, changes, calls, vq, fz, cq, xq,
                overwritten, io>>

\* what the steps inside the probe leave alone
InProbe == UNCHANGED <<idx, found_paths, invoked, last_ret, error>>

\* lines 205-213: the executor is made, every pattern is submitted and the
\* collection timeout is computed
PoolSubmit ==
    /\ AtProbe("common_paths")
    /\ pool = NoPool
    /\ pool' = [phase |-> "collecting",
                task |-> [t \in PoolTasks |-> "queued"],
                collected |-> {}, main |-> "idle", lock |-> "free",
                late |-> {}, entered_at |-> elapsed(start_age),
                end |-> elapsed(start_age) + timeout_remaining,
                why |-> "none", timeout_at |-> NoTime, outstanding |-> {},
                ret_at |-> NoTime]
    /\ UNCHANGED start_age
    /\ InProbe
    /\ PoolFrame

\* a worker thread takes the head of the queue and begins to execute it
TaskStart ==
    /\ pool.phase \in {"collecting", "exiting"}
    /\ CanStart(pool)
    /\ pool' = [pool EXCEPT
                   !.task[NextQueued(pool)] = "running",
                   !.late = IF is_timeout(start_age)
                            THEN @ \cup {NextQueued(pool)} ELSE @]
    /\ UNCHANGED start_age
    /\ InProbe
    /\ PoolFrame

\* lines 315-321: the task has found a directory and appends it
TaskFind ==
    /\ pool.phase \in {"collecting", "exiting"}
    /\ \E t \in PoolTasks :
        /\ pool.task[t] = "running"
        /\ check_path_with_glob(fs, CommonPaths[t]) # <<>>
        /\ pool' = [pool EXCEPT !.task[t] = "writing"]
    /\ UNCHANGED start_age
    /\ InProbe
    /\ PoolFrame

\* line 325: _check_path_with_glob returns and the future is finished
TaskFinish ==
    /\ pool.phase \in {"collecting", "exiting"}
    /\ \E t \in PoolTasks :
        /\ \/ pool.task[t] = "writing"
           \/ /\ pool.task[t] = "running"
              /\ check_path_with_glob(fs, CommonPaths[t]) = <<>>
        /\ pool' = [pool EXCEPT !.task[t] = "done"]
    /\ UNCHANGED start_age
    /\ InProbe
    /\ PoolFrame

\* lines 214-219: as_completed yields a finished future before the
\* deadline and its result is appended to `paths`
Collect ==
    /\ pool.phase = "collecting"
    /\ pool.main = "idle"
    /\ ~is_timeout(start_age)
    /\ \E t \in Finished(pool) :
        pool' = [pool EXCEPT !.collected = @ \cup {t},
                             !.main = "extending"]
    /\ UNCHANGED start_age
    /\ InProbe
    /\ PoolFrame

\* paths.extend has returned; the loop ends with the last future
CollectDone ==
    /\ pool.phase = "collecting"
    /\ pool.main = "extending"
    /\ pool' = [pool EXCEPT
                   !.main = "idle",
                   !.phase = IF pool.collected = PoolTasks THEN "exiting"
                             ELSE @,
                   !.why = IF pool.collected = PoolTasks THEN "all" ELSE @]
    /\ UNCHANGED start_age
    /\ InProbe
    /\ PoolFrame

\* lines 215-216: as_completed yields a future after the deadline
PoolBreak ==
    /\ pool.phase = "collecting"
    /\ pool.main = "idle"
    /\ is_timeout(start_age)
    /\ Finished(pool) # {}
    /\ pool' = [pool EXCEPT !.phase = "exiting", !.why = "break"]
    /\ UNCHANGED start_age
    /\ InProbe
    /\ PoolFrame

\* line 214: as_completed raises TimeoutError, futures are still pending
CollectTimeout ==
    /\ pool.phase = "collecting"
    /\ pool.main = "idle"
    /\ elapsed(start_age) > pool.end
    /\ Finished(pool) = {}
    /\ pool.collected # PoolTasks
    /\ pool' = [pool EXCEPT
                   !.phase = "exiting", !.why = "timeout",
                   !.timeout_at = elapsed(start_age),
                   !.outstanding = {t \in PoolTasks :
                                       pool.task[t] # "done"}]
    /\ UNCHANGED start_age
    /\ InProbe
    /\ PoolFrame

\* the end of the with block: ThreadPoolExecutor.__exit__ is
\* shutdown(wait=True), which joins the workers once the queue is drained
PoolExit ==
    /\ pool.phase = "exiting"
    /\ \A t \in PoolTasks : pool.task[t] = "done"
    /\ pool' = [pool EXCEPT
                   !.phase = IF pool.why = "timeout" THEN "raised"
                             ELSE "returned",
                   !.ret_at = elapsed(start_age)]
    /\ UNCHANGED start_age
    /\ InProbe
    /\ PoolFrame

\* line 87: the orchestrator takes the lock
LockAcquire ==
    /\ pool.phase = "returned"
    /\ pool.lock = "free"
    /\ pool' = [pool EXCEPT !.phase = "inserting", !.lock = "main"]
    /\ UNCHANGED start_age
    /\ InProbe
    /\ PoolFrame

\* lines 88-90: the paths are inserted and the lock is released
LockedInsert ==
    /\ pool.phase = "inserting"
    /\ pool' = [pool EXCEPT !.phase = "inserted", !.lock = "free"]
    /\ found_paths' = found_paths
           \cup Range(common_paths_collected(fs, pool.collected))
    /\ last_ret' = [name |-> "common_paths",
                    paths |-> common_paths_collected(fs, pool.collected),
                    raised |-> FALSE, expired |-> FALSE]
    /\ error' = "none"
    /\ invoked' = Append(invoked, "common_paths")
    /\ idx' = idx + 1
    /\ UNCHANGED start_age
    /\ PoolFrame

\* a probe whose collected paths survive the exception
raised_contribution_kept(f, collected) ==
    Range(common_paths_collected(f, collected))

\* what reaches found_paths from a probe that raised: line 88 is not
\* executed, and `paths` was local to the probe
raised_contribution(f, collected) == {}

\* lines 91-93: the orchestrator catches the TimeoutError of the probe
PoolCaught ==
    /\ pool.phase = "raised"
    /\ pool' = [pool EXCEPT !.phase = "caught"]
    /\ last_ret' = [name |-> "common_paths", paths |-> <<>>,
                    raised |-> TRUE, expired |-> TRUE]
    /\ error' = except_Exception("TimeoutError")
    /\ invoked' = Append(invoked, "common_paths")
    /\ idx' = idx + 1
    /\ found_paths' = found_paths
           \cup raised_contribution(fs, pool.collected)
    /\ UNCHANGED start_age
    /\ PoolFrame

\* a second passes while the collecting thread is blocked, in as_completed
\* or in shutdown, and every worker is busy or has nothing to take
PoolTick ==
    /\ pool.phase \in {"collecting", "exiting"}
    /\ pool.main = "idle"
    /\ start_age < PoolCap
    /\ ~CanStart(pool)
    /\ Running(pool) # {}
    /\ pool.phase = "collecting" =>
           Finished(pool) = {} /\ elapsed(start_age) <= pool.end
    /\ start_age' = start_age + 1
    /\ UNCHANGED pool
    /\ InProbe
    /\ PoolFrame

NextPool ==
    \/ PoolSubmit
    \/ TaskStart
    \/ TaskFind
    \/ TaskFinish
    \/ Collect
    \/ CollectDone
    \/ PoolBreak
    \/ CollectTimeout
    \/ PoolExit
    \/ LockAcquire
    \/ LockedInsert
    \/ PoolCaught
    \/ PoolTick

SpecPool == InitPool /\ [][NextPool]_vars

(***************************************************************************)
(* The bytes of the cache file under concurrent _save_cache / _load_cache  *)
(***************************************************************************)
\* a piece of the text json.dump writes: the opening with the key 'paths',
\* one listed path, or the closing with 'timestamp' and 'os'
Unit(k, p) == [k |-> k, p |-> p]

\* a byte of a hole, left by a write beyond the end of the file
Nul == Unit("nul", <<>>)

\* the text json.dump writes for the record of `paths`
Enc(paths) ==
    <<Unit("open", <<>>)>>
    \o [i \in 1..Len(paths) |-> Unit("path", paths[i])]
    \o <<Unit("close", <<>>)>>

\* write(2) of `us` at offset `off` of a file opened without O_APPEND
pwrite(file, off, us) ==
    LET n == MaxOf({Len(file), off + Len(us)}) IN
    [i \in 1..n |->
        IF i > off /\ i <= off + Len(us) THEN us[i - off]
        ELSE IF i <= Len(file) THEN file[i]
        ELSE Nul]

\* the text is one JSON object
WellFormed(buf) ==
    /\ Len(buf) >= 2
    /\ buf[1].k = "open"
    /\ buf[Len(buf)].k = "close"
    /\ \A i \in 2..(Len(buf) - 1) : buf[i].k = "path"

\* a json.load that never raises
json_load_exc_lenient(buf) == "none"

\* the exception json.load raises on the text
json_load_exc(buf) ==
    IF WellFormed(buf) THEN "none" ELSE "JSONDecodeError"

\* data.get('paths', []) of what json.load made of the text
json_load(buf) ==
    LET ps == SelectSeq(buf, LAMBDA u : u.k = "path") IN
    [i \in 1..Len(ps) |-> ps[i].p]

\* the results the racing saves write
RaceLists == {<<D_SHARE>>, <<D_SHARE, D_HOME>>, <<D_OPT, D_HOME, D_SHARE>>}

\* the cache file the race starts on: absent, or a complete record
RaceFiles ==
    {[exists |-> FALSE, file |-> <<>>, fresh |-> FALSE, old |-> <<>>]}
    \cup {[exists |-> TRUE, file |-> Enc(ps), fresh |-> fr, old |-> ps] :
             ps \in {<<D_OPT, D_SHARE>>, <<D_OPT_UC>>}, fr \in BOOLEAN}

IdleWriter == [pc |-> "idle", rec |-> <<>>, off |-> 0]
IdleReader == [pc |-> "idle", buf |-> <<>>, ret |-> <<>>, err |-> "none"]

\* n invocations are about to save their results; loads: one more is about
\* to load the cache
InitRace(n, loads) ==
    /\ fs = F_MANY
    /\ env = NoEnv
    /\ tess = "absent"
    /\ cache = NoCache
    /\ InitCall
    /\ \E f \in RaceFiles, recs \in [1..n -> RaceLists] :
        io = [on |-> TRUE, exists |-> f.exists, file |-> f.file,
              fresh |-> f.fresh, old |-> f.old,
              w |-> [i \in 1..n |-> [IdleWriter EXCEPT !.rec = recs[i]]],
              r |-> [IdleReader EXCEPT
                        !.pc = IF loads THEN "idle" ELSE "off"],
              last |-> 0]

\* what no step of the race changes
RaceFrame ==
    UNCHANGED <<fs, env, tess, cache, start_age, pc, idx, found_paths,
                use_cache, result, invoked, last_ret, finalized, saved, cut,
                prev, changes, calls, vq, fz, error, cq, xq, pool,
                overwritten>>

\* line 137: open(self.cache_file, 'w') creates or truncates the file; when
\* it fails the handler at line 144 ends the save
SaveOpen ==
    /\ io.on
    /\ \E i \in DOMAIN io.w, ok \in BOOLEAN :
        /\ io.w[i].pc = "idle"
        /\ io' = IF save_cache_exc(ok) = "none"
                 THEN [io EXCEPT !.w[i].pc = "open", !.exists = TRUE,
                                 !.file = <<>>, !.fresh = TRUE]
                 ELSE [io EXCEPT !.w[i].pc = "failed"]
    /\ RaceFrame

\* lines 138-142: the text reaches the file in one write or in several, at
\* the offset of this invocation's own file object; the last one closes it
SaveWrite ==
    /\ io.on
    /\ \E i \in DOMAIN io.w :
        /\ io.w[i].pc = "open"
        /\ \E k \in 1..(Len(Enc(io.w[i].rec)) - io.w[i].off) :
            LET text == Enc(io.w[i].rec)
                off == io.w[i].off
                whole == off + k = Len(text)
            IN io' = [io EXCEPT
                         !.file = pwrite(io.file, off,
                                         SubSeq(text, off + 1, off + k)),
                         !.fresh = TRUE,
                         !.w[i].off = off + k,
                         !.w[i].pc = IF whole THEN "closed" ELSE "open",
                         !.last = IF whole THEN i ELSE @]
    /\ RaceFrame

\* lines 116-122: the file is absent or too old and the load returns []
LoadStat ==
    /\ io.on
    /\ io.r.pc = "idle"
    /\ io' = IF io.exists /\ io.fresh
             THEN [io EXCEPT !.r.pc = "reading"]
             ELSE [io EXCEPT !.r.pc = "done"]
    /\ RaceFrame

\* line 125: f.read() takes what the file holds beyond what it has read
LoadRead ==
    /\ io.on
    /\ io.r.pc = "reading"
    /\ Len(io.file) > Len(io.r.buf)
    /\ io' = [io EXCEPT
                 !.r.buf = @ \o SubSeq(io.file, Len(io.r.buf) + 1,
                                       Len(io.file))]
    /\ RaceFrame

\* lines 125-133: f.read() meets the end of the file, json.load parses the
\* text, the listed paths are validated; the handler turns a failure into []
LoadParse ==
    /\ io.on
    /\ io.r.pc = "reading"
    /\ Len(io.file) <= Len(io.r.buf)
    /\ io' = [io EXCEPT
                 !.r.pc = "done",
                 !.r.err = except_Exception(json_load_exc(io.r.buf)),
                 !.r.ret = IF json_load_exc(io.r.buf) # "none" THEN <<>>
                           ELSE SelectSeq(json_load(io.r.buf),
                                 LAMBDA p : is_valid_tessdata_quick(fs, p))]
    /\ RaceFrame

InitSaveRace == InitRace(2, FALSE)

NextSaveRace == SaveOpen \/ SaveWrite

SpecSaveRace == InitSaveRace /\ [][NextSaveRace]_vars

InitLoadRace == InitRace(1, TRUE)

NextLoadRace == SaveOpen \/ SaveWrite \/ LoadStat \/ LoadRead \/ LoadParse

SpecLoadRace == InitLoadRace /\ [][NextLoadRace]_vars

(***************************************************************************)
(* Properties                                                              *)
(***************************************************************************)
\* the path names an existing directory that can be listed
ListableDir(f, p) == Node(f, p).kind = "dir" /\ Node(f, p).listable

\* C1 as stated: each validator returns true iff the path is an existing,
\* listable directory with an entry whose name ends with '.traineddata'
\* compared without regard to case.
C1_CaseInsensitive ==
    vq.op = "validate" =>
        LET valid == /\ ListableDir(fs, vq.path)
                     /\ \E e \in Node(fs, vq.path).entries :
                            EndsWith(Lower(e), SUFFIX)
        IN vq.quick = valid /\ vq.dir = valid

\* C1 amended: each validator returns true iff the path is an existing,
\* listable directory with an entry whose name ends with '.traineddata'
\* compared case-sensitively; _is_valid_tessdata_quick moreover wants a
\* non-empty stem before the suffix.
C1_Validator ==
    vq.op = "validate" =>
        /\ vq.quick = (/\ ListableDir(fs, vq.path)
                       /\ \E e \in Node(fs, vq.path).entries :
                              EndsWith(e, SUFFIX) /\ Len(e) > Len(SUFFIX))
        /\ vq.dir = (/\ ListableDir(fs, vq.path)
                     /\ \E e \in Node(fs, vq.path).entries :
                            EndsWith(e, SUFFIX))

C1_Witness == vq.op = "validate" /\ vq.path = R_OPT_TRAIL /\ vq.quick /\ vq.dir

\* the score of C2: -1000 for an environment marker, -500 for the system
\* share directory, -300 for a user-home convention, -10 per data file
ClaimScore(f, p) ==
    (IF HasEnvMarker(Lower(p)) THEN 0 - 1000 ELSE 0)
    + (IF HasUsrShare(Lower(p)) THEN 0 - 500 ELSE 0)
    + (IF HasUserMarker(Lower(p)) THEN 0 - 300 ELSE 0)
    - 10 * GlobCount(f, p)

\* C2: the sequence _finalize_paths returns is in ascending order of the
\* score, and paths of equal score are in ascending order of their
\* lower-cased strings.
C2_Sorted ==
    fz.op = "finalize" =>
        \A i, j \in 1..Len(fz.out) :
            i < j =>
                \/ ClaimScore(fs, fz.out[i]) < ClaimScore(fs, fz.out[j])
                \/ /\ ClaimScore(fs, fz.out[i]) = ClaimScore(fs, fz.out[j])
                   /\ ~StrLess(Lower(fz.out[j]), Lower(fz.out[i]))

C2_Witness ==
    /\ fz.op = "finalize"
    /\ Len(fz.out) >= 3
    /\ \E i, j \in 1..Len(fz.out) :
        i < j /\ ClaimScore(fs, fz.out[i]) = ClaimScore(fs, fz.out[j])
    /\ \E i, j \in 1..Len(fz.out) :
        /\ ClaimScore(fs, fz.out[i]) < ClaimScore(fs, fz.out[j])
        /\ GlobCount(fs, fz.out[i]) # GlobCount(fs, fz.out[j])

\* position of x in the sequence s, 0 when it is not there
IndexOf(s, x) ==
    IF x \in Range(s) THEN CHOOSE i \in 1..Len(s) : s[i] = x ELSE 0

\* C3: when TESSDATA_PREFIX names a valid directory with 3 data files and a
\* directory under /usr/share with 1 data file is found as well, the fresh
\* search lists the former first and it is the primary path.
C3_EnvFirst ==
    \A s \in Range(result) :
        ( /\ pc = "done"
          /\ finalized
          /\ env["TESSDATA_PREFIX"] # <<>>
          /\ abspath(env["TESSDATA_PREFIX"]) \in Range(result)
          /\ GlobCount(fs, env["TESSDATA_PREFIX"]) = 3
          /\ HasUsrShare(Lower(s))
          /\ GlobCount(fs, s) = 1 )
        => /\ IndexOf(result, abspath(env["TESSDATA_PREFIX"]))
                < IndexOf(result, s)
           /\ get_primary_path(result) = abspath(env["TESSDATA_PREFIX"])

\* the order of the probes and the stop conditions, as C4 gives them
ClaimOrder == <<"env_vars", "tesseract_cmd", "common_paths",
                "binary_relative", "package_locations">>
ClaimStop == start_age > DefaultTimeout \/ Cardinality(found_paths) >= 3

\* C4: a probe is invoked only as the next one of the fixed order and only
\* when neither stop condition holds; when one holds the next step of the
\* call is the finalization; what an invoked probe returns is merged
\* whatever the time or the count has become.
C4_ProbeOrder ==
    [][ /\ invoked' # invoked /\ invoked' # <<>> =>
            /\ Len(invoked) < Len(ClaimOrder)
            /\ invoked' = Append(invoked, ClaimOrder[Len(invoked) + 1])
            /\ ~ClaimStop
            /\ found_paths' = found_paths \cup Range(last_ret'.paths)
        /\ pc = "loop" /\ ClaimStop /\ (pc' # pc \/ idx' # idx) =>
            /\ pc' = "done"
            /\ finalized'
            /\ invoked' = invoked
        /\ pc = "loop" /\ pc' = "done" =>
            Len(invoked) = Len(ClaimOrder) \/ ClaimStop
      ]_vars

C4_Witness ==
    /\ pc = "done"
    /\ finalized
    /\ Len(invoked) \in 1..2
    /\ Cardinality(found_paths) >= 3
    /\ start_age <= DefaultTimeout

\* what a load of the cache file yields: the listed paths that are valid
\* now, unless the file is absent, malformed or too old
ClaimLoaded ==
    IF cache.state = "valid" /\ cache.mtime_age <= cache_max_age
    THEN SelectSeq(cache.paths, LAMBDA p : is_valid_tessdata_quick(fs, p))
    ELSE <<>>

\* C5: a call with use_cache true whose cache load yields a non-empty
\* sequence returns that sequence, invokes no probe, does not finalize and
\* leaves the cache file as it is.
C5_CacheHit ==
    [][ calls' # calls /\ use_cache' /\ ClaimLoaded # <<>> =>
            /\ pc' = "done"
            /\ result' = ClaimLoaded
            /\ invoked' = <<>>
            /\ ~finalized'
            /\ cache' = cache
      ]_vars

C5_Witness ==
    /\ pc = "done"
    /\ use_cache
    /\ ~finalized
    /\ Len(result) >= 2
    /\ \E i \in 1..Len(cache.paths) : cache.paths[i] \notin Range(result)

\* C6: the sequence _finalize_paths returns holds no path twice, and the
\* normalized form of every valid raw candidate exactly once.
C6_NoDuplicates ==
    fz.op = "finalize" =>
        /\ \A i, j \in 1..Len(fz.out) : fz.out[i] = fz.out[j] => i = j
        /\ \A k \in 1..Len(fz.paths) :
            is_valid_tessdata_quick(fs, fz.paths[k]) =>
                Cardinality({i \in 1..Len(fz.out) :
                                fz.out[i] = normpath(fz.paths[k])}) = 1

C6_Witness ==
    /\ fz.op = "finalize"
    /\ \E i, j \in 1..Len(fz.paths) :
        /\ fz.paths[i] # fz.paths[j]
        /\ normpath(fz.paths[i]) = normpath(fz.paths[j])
        /\ normpath(fz.paths[i]) \in Range(fz.out)

\* C7: every path of a returned result passes the validator at the moment
\* of the return, after a fresh search and after a cache hit.
C7_ResultValid ==
    [][ pc' = "done" /\ (pc = "loop" \/ calls' # calls) =>
            \A i \in 1..Len(result') : is_valid_tessdata_quick(fs', result'[i])
      ]_vars

C7_Witness ==
    /\ pc = "done"
    /\ finalized
    /\ result # <<>>
    /\ \E p \in found_paths : normpath(p) \notin Range(result)
    /\ \A i \in 1..Len(result) : is_valid_tessdata_quick(fs, result[i])

\* C8 as stated: with the file system unchanged since the previous call
\* began, a call with use_cache false returns the sequence the previous
\* call with use_cache false returned.
C8_SameResult ==
    pc = "done" /\ ~use_cache /\ prev.valid /\ ~prev.changed =>
        result = prev.result

\* no two paths of r have the same score and the same lower-cased string
NoTies(f, r) ==
    \A i, j \in 1..Len(r) :
        i # j => ~(/\ ClaimScore(f, r[i]) = ClaimScore(f, r[j])
                   /\ Lower(r[i]) = Lower(r[j]))

\* C8 amended: if moreover no time budget and no probe timeout cut either
\* call short, the two calls return the same paths, in the same order
\* unless two of them tie on score and lower-cased string.
C8_Idempotent ==
    pc = "done" /\ ~use_cache /\ prev.valid /\ ~prev.changed
        /\ ~cut /\ ~prev.cut =>
        /\ Range(result) = Range(prev.result)
        /\ Len(result) = Len(prev.result)
        /\ NoTies(fs, result) => result = prev.result

C8_Witness ==
    /\ pc = "done" /\ ~use_cache /\ prev.valid /\ ~prev.changed
    /\ ~cut /\ ~prev.cut
    /\ Len(result) >= 3
    /\ NoTies(fs, result)

\* C9 as stated: a call with use_cache true that finds a record whose
\* timestamp field is older than the expiry age runs a fresh search.
C9_TimestampExpiry ==
    [][ /\ calls' # calls /\ use_cache'
        /\ cache.state = "valid" /\ cache.timestamp_age > cache_max_age
        => pc' = "loop" /\ result' = <<>>
      ]_vars

\* C9 amended: a call with use_cache true that finds a cache file whose
\* modification time is older than the expiry age runs a fresh search,
\* whatever the record holds.
C9_Expiry ==
    [][ /\ calls' # calls /\ use_cache'
        /\ cache.state # "absent" /\ cache.mtime_age > cache_max_age
        => pc' = "loop" /\ result' = <<>>
      ]_vars

C9_Witness ==
    /\ pc = "loop" /\ use_cache /\ invoked = <<>>
    /\ cache.state = "valid" /\ cache.mtime_age > cache_max_age
    /\ cache.paths # <<>>
    /\ \A i \in 1..Len(cache.paths) :
        is_valid_tessdata_quick(fs, cache.paths[i])

\* C10: a load that follows a successful save of the finalized result at
\* once returns that result.
C10_RoundTrip ==
    [][ pc = "loop" /\ pc' = "done" /\ saved' = "ok" =>
            load_cache(cache', fs') = result'
      ]_vars

C10_Witness ==
    /\ pc = "done" /\ saved = "ok"
    /\ Len(result) >= 2
    /\ cache.mtime_age = 0
    /\ prev.valid = FALSE
    /\ load_cache(cache, fs) = result

\* the cache operation a step performs, "none" when it performs none
CacheOp ==
    IF Len(cq') = Len(cq) + 1 THEN cq'[Len(cq')].op ELSE "none"

\* C11: _load_cache lets no exception out; it returns the listed paths that
\* pass the validator now, in record order, when the file is present, can be
\* read, holds a record and is not expired, and nothing otherwise; a call
\* of find_tessdata_paths with use_cache true to which it returns nothing
\* goes on to the probes, and one to which it returns paths returns them.
C11_LoadCache ==
    [][ /\ CacheOp = "load" =>
            /\ error' = "none"
            /\ cq'[Len(cq')].paths = ClaimLoaded
        /\ calls' # calls /\ use_cache' =>
            /\ error' = "none"
            /\ IF ClaimLoaded = <<>> THEN pc' = "loop"
               ELSE pc' = "done" /\ result' = ClaimLoaded
      ]_vars

C11_Witness ==
    /\ pc = "loop" /\ use_cache
    /\ cq # <<>> /\ cq[Len(cq)].op = "load" /\ cq[Len(cq)].paths = <<>>
    /\ cache.state = "valid" /\ cache.mtime_age <= cache_max_age
    /\ Len(cache.paths) = 2
    /\ \A i \in 1..Len(cache.paths) : ~is_valid_tessdata_quick(fs, cache.paths[i])

\* C13: clear_cache lets no exception out; it returns true exactly when a
\* cache file existed before the call and is gone after it; a clear_cache
\* that follows one that returned true returns false, and a load that
\* follows one that returned true returns nothing.
C13_ClearCache ==
    [][ /\ CacheOp = "clear" =>
            /\ error' = "none"
            /\ cq'[Len(cq')].ret =
                   (cache.state # "absent" /\ cache'.state = "absent")
            /\ cq'[Len(cq')].ret => cache' = NoCache
            /\ ~cq'[Len(cq')].ret => cache' = cache
        /\ cq # <<>> /\ cq[Len(cq)].op = "clear" /\ cq[Len(cq)].ret =>
            /\ CacheOp = "clear" => ~cq'[Len(cq')].ret
            /\ CacheOp = "load" => cq'[Len(cq')].paths = <<>>
            /\ calls' # calls /\ use_cache' => pc' = "loop"
      ]_vars

C13_Witness ==
    /\ Len(cq) = 3
    /\ cq[1].op = "clear" /\ cq[1].ret
    /\ cq[2].op = "clear" /\ ~cq[2].ret
    /\ cq[3].op = "load" /\ cq[3].paths = <<>>
    /\ cache = NoCache

\* a fresh search that was made with use_cache true returns a result that
\* is not empty
FreshSuccess == pc = "loop" /\ pc' = "done" /\ use_cache /\ result' # <<>>

C14_SaveFailure ==
    [][ pc = "loop" /\ pc' = "done" /\ saved' = "failed" =>
            /\ error' = "none"
            /\ finalized'
            /\ result' # <<>>
            /\ \E order \in Perms(found_paths) :
                result' = sorted(fs, ValidNormalized(fs, order, <<>>))
      ]_vars

C14_Witness ==
    /\ pc = "done" /\ saved = "failed" /\ error = "none"
    /\ Len(result) >= 2
    /\ overwritten.state = "valid"
    /\ cache = overwritten

\* C15: when a probe raises or is ended by a timeout of its own, it adds
\* nothing to the candidates, the candidates of the earlier probes stay,
\* no exception leaves find_tessdata_paths, and the loop goes on with the
\* next probe: the search ends only after the last probe or when the time
\* budget or the threshold stops it.
C15_ProbeFailure ==
    [][ /\ invoked' # invoked /\ invoked' # <<>>
           /\ (last_ret'.raised \/ last_ret'.expired) =>
            /\ found_paths' = found_paths
            /\ error' = "none"
            /\ pc' = "loop"
            /\ idx' = idx + 1
        /\ pc = "loop" /\ (last_ret.raised \/ last_ret.expired)
           /\ (pc' # pc \/ idx' # idx) =>
            /\ error' = "none"
            /\ IF idx > Len(ClaimOrder) \/ ClaimStop
               THEN pc' = "done" /\ finalized'
               ELSE invoked' = Append(invoked, ClaimOrder[idx])
      ]_vars

C15_Witness ==
    /\ pc = "loop"
    /\ invoked = <<"env_vars", "tesseract_cmd", "common_paths">>
    /\ cut /\ start_age <= DefaultTimeout
    /\ ~last_ret.raised /\ ~last_ret.expired
    /\ last_ret.paths # <<>>
    /\ \E p \in found_paths : p \notin Range(last_ret.paths)

\* no probe of either finder can yield a path: no variable set, no binary,
\* no directory
NothingInstalled ==
    /\ \A v \in DOMAIN env : env[v] = <<>>
    /\ tess = "absent"
    /\ \A d \in Dirs : fs[d].kind = "absent"

\* C16: when no probe yields a validated path, both finders return an empty
\* list and a primary path of None and raise nothing; in every other case
\* the primary path is the first element of the list of all paths
C16_Primary ==
    /\ xq.op = "primary" =>
        /\ error = "none"
        /\ NothingInstalled => xq.paths = <<>>
        /\ xq.paths = <<>> => xq.primary = <<>>
        /\ xq.paths # <<>> => xq.primary = xq.paths[1]
    /\ pc = "done" =>
        /\ error = "none"
        /\ finalized /\ found_paths = {} => result = <<>>
        /\ result = <<>> => get_primary_path(result) = <<>>
        /\ result # <<>> => get_primary_path(result) = result[1]

\* nothing is installed and the exhaustive finder has returned no path and
\* a primary path of None
C16_Witness ==
    /\ NothingInstalled
    /\ xq.op = "primary"
    /\ xq.paths = <<>>
    /\ xq.primary = <<>>
    /\ error = "none"

\* nothing is installed and the fast finder has searched and returned nothing
C16_WitnessFast ==
    /\ NothingInstalled
    /\ pc = "done"
    /\ finalized
    /\ result = <<>>
    /\ error = "none"

\* the exhaustive finder found two directories and the first is primary
C16_WitnessFirst ==
    /\ xq.op = "primary"
    /\ Len(xq.paths) >= 2
    /\ xq.primary = xq.paths[1]
    /\ xq.primary # xq.paths[Len(xq.paths)]

\* the position of a language code in the order of sorted()
LangPos(c) == CHOOSE i \in 1..Len(LangOrder) : LangOrder[i] = c

\* a list of codes is strictly increasing: sorted and free of duplicates
StrictlySorted(l) ==
    \A i, j \in 1..Len(l) : i < j => LangPos(l[i]) < LangPos(l[j])

\* the codes get_all_languages reads in the directories ps
CodesIn(ps) == UNION {get_languages_from_path(fs, p) : p \in ps}

\* the found directories that hold configs/box.train
Boxed(ps) == {p \in ps : has_box_train(fs, p)}

C17_WitnessMerged ==
    /\ xq.op = "languages"
    /\ Boxed(Range(xq.paths)) = {}
    /\ \E p, q \in Range(xq.paths) :
        /\ get_languages_from_path(fs, p) \ get_languages_from_path(fs, q)
               # {}
        /\ get_languages_from_path(fs, q) \ get_languages_from_path(fs, p)
               # {}
    /\ Range(xq.langs) = CodesIn(Range(xq.paths))

\* C18: once the deadline has passed no probe is invoked and no task of the
\* pool begins to execute
C18_NoLateStart ==
    pool.phase # "none" =>
        /\ pool.entered_at <= DefaultTimeout
        /\ pool.late = {}

\* C19: the wait for the results is bounded by the remaining time budget,
\* and once the collection timeout is reached the probe spends no more time
\* on the outstanding tasks before it returns to the orchestrator
C19_Abandoned ==
    pool.phase # "none" /\ pool.why = "timeout" =>
        /\ pool.timeout_at <= pool.end + 1
        /\ pool.end <= IF pool.entered_at < DefaultTimeout
                       THEN DefaultTimeout ELSE pool.entered_at + 1
        /\ IF pool.phase = "exiting"
           THEN elapsed(start_age) = pool.timeout_at
           ELSE pool.ret_at = pool.timeout_at

\* C20: no object is written by two threads at once, the workers write only
\* their own lists, and found_paths is written only by the holder of the
\* lock
C20_NoRace ==
    pool.phase # "none" =>
        /\ \A w1, w2 \in Writes(pool) :
               w1.obj = w2.obj => w1.thread = w2.thread
        /\ \A w \in Writes(pool) :
               /\ w.thread # 0 => w.obj = <<"found", w.thread>>
               /\ w.obj = <<"found_paths", 0>> =>
                      w.thread = 0 /\ pool.lock = "main"

\* two workers append to their lists at the same time
C20_Witness ==
    /\ pool.phase = "collecting"
    /\ Cardinality({w \in Writes(pool) : w.thread # 0}) >= 2

\* the orchestrator inserts the collected paths, holding the lock
C20_WitnessInsert ==
    /\ pool.phase = "inserting"
    /\ pool.lock = "main"
    /\ common_paths_collected(fs, pool.collected) # <<>>

\* both invocations have written and closed the file
BothSaved == io.on /\ \A i \in DOMAIN io.w : io.w[i].pc = "closed"

\* C21: after two concurrent saves have completed, the cache file holds
\* exactly the complete record of the invocation whose write finished last
C21_LastWriterWins ==
    io.on /\ io.r.pc = "off" /\ BothSaved =>
        io.file = Enc(io.w[io.last].rec)

\* C26: a load that runs while another invocation saves lets no exception
\* out and returns nothing, or the valid paths of the record the file held
\* before, or the valid paths of the record being saved
C26_LoadDuringSave ==
    io.on /\ io.r.pc = "done" =>
        /\ io.r.err = "none"
        /\ io.r.ret \in
               {<<>>,
                SelectSeq(io.old, LAMBDA p : is_valid_tessdata_quick(fs, p)),
                SelectSeq(io.w[1].rec,
                          LAMBDA p : is_valid_tessdata_quick(fs, p))}

\* the load read the file between the truncation and the end of the write,
\* and returned nothing
C26_Witness ==
    /\ io.on /\ io.r.pc = "done"
    /\ io.w[1].pc = "closed"
    /\ io.r.buf # Enc(io.old)
    /\ io.r.buf # Enc(io.w[1].rec)
    /\ io.r.ret = <<>>
    /\ io.r.err = "none"

\* the load began on the old record and returned the new one
C26_WitnessNew ==
    /\ io.on /\ io.r.pc = "done"
    /\ io.old # <<>>
    /\ io.r.ret # <<>>
    /\ io.r.ret = io.w[1].rec
    /\ io.r.ret # io.old

\* d lies within the depth bound below a search root and no symbolic link
\* is on the way to it
WithinBound(d) ==
    \E i \in 1..Len(SearchRoots) :
        /\ ProperPrefix(SearchRoots[i], d)
        /\ Len(d) - Len(SearchRoots[i]) <= SearchDepth
        /\ ~Through(SearchRoots[i], d, LinkNames)

\* C22: _comprehensive_tessdata_search reports no directory that lies more
\* than 5 levels below every search root or behind a symbolic link
C22_DepthBounded ==
    xq.op # "none" => \A d \in xq.searched : WithinBound(d)

\* C23: the walk reports every valid directory named tessdata that lies
\* within the depth bound below a root, behind no link, and whose ancestors
\* can all be listed, whatever other directory cannot be listed
C23_SkipAndContinue ==
    xq.op # "none" =>
        \A d \in Dirs :
            ( /\ d[Len(d)] = "tessdata"
              /\ is_valid_tessdata_dir(fs, d)
              /\ \E i \in 1..Len(SearchRoots) :
                    /\ ProperPrefix(SearchRoots[i], d)
                    /\ Len(d) - Len(SearchRoots[i]) <= SearchDepth
                    /\ ~Through(SearchRoots[i], d, LinkNames)
                    /\ Listable(fs, SearchRoots[i], d) )
            => d \in xq.walked

\* /opt/tess cannot be listed, the data directory in it is not reported and
\* the one in its sibling /opt/tools is
C23_Witness ==
    /\ xq.op # "none"
    /\ fs[D_OPT].kind = "dir" /\ ~fs[D_OPT].listable
    /\ is_valid_tessdata_dir(fs, D_OPT_SUB)
    /\ D_OPT_SUB \notin xq.walked
    /\ D_TOOLS \in xq.walked

\* the step ends a fresh search that ran with use_cache true and returns a
\* finalized result that is not empty
SavingStep ==
    /\ pc = "loop" /\ pc' = "done"
    /\ use_cache /\ finalized' /\ result' # <<>>

\* the step writes the cache file: the record or its timestamp is new
CacheWritten ==
    \/ cache'.state # cache.state
    \/ cache'.paths # cache.paths
    \/ cache'.timestamp_age < cache.timestamp_age

\* C24: the cache record is written only by a fresh search that ran with
\* use_cache true and has a non-empty finalized result; a call with
\* use_cache false goes to the probes whatever the file holds and leaves
\* the file as it is, and so do a cache hit and a fresh search whose
\* result is empty
C24_CacheFrame ==
    [][ /\ CacheWritten => SavingStep
        /\ calls' # calls /\ ~use_cache' => pc' = "loop" /\ cache' = cache
        /\ calls' # calls /\ pc' = "done" => cache' = cache
        /\ pc = "loop" /\ pc' = "done" /\ (~use_cache \/ result' = <<>>) =>
               cache' = cache /\ saved' = "none"
      ]_vars

\* a call with use_cache false has returned paths that the valid record in
\* the cache file does not list, and the record is as it was
C24_Witness ==
    /\ pc = "done" /\ ~use_cache /\ finalized
    /\ result # <<>>
    /\ saved = "none"
    /\ cache.state = "valid"
    /\ cache.mtime_age <= cache_max_age
    /\ cache.paths # result

C27_RawThreshold ==
    [][ /\ invoked' # invoked /\ invoked' # <<>> =>
            /\ Cardinality(found_paths) < Threshold
            /\ found_paths' = found_paths \cup Range(last_ret'.paths)
        /\ pc = "loop" /\ pc' = "done" =>
            /\ Len(result') <= Cardinality(found_paths)
            /\ Range(result') =
                   {normpath(p) : p \in {q \in found_paths :
                                     is_valid_tessdata_quick(fs, q)}}
            /\ idx <= Len(Methods) /\ ~is_timeout(start_age) =>
                   Cardinality(found_paths) >= Threshold
      ]_vars

\* probing stopped on the threshold and the result has fewer than 3 paths
C27_Witness ==
    /\ pc = "done" /\ finalized
    /\ Len(invoked) < Len(Methods)
    /\ ~is_timeout(start_age)
    /\ Cardinality(found_paths) >= Threshold
    /\ Len(result) < Threshold

\* the result has more than 3 paths
C27_WitnessMore ==
    /\ pc = "done" /\ finalized
    /\ Len(result) > Threshold

====
